---- MODULE Spec2Model ----
(***************************************************************************)
(* Model of src/main.py: process_vocals_for_phonk, a sequential pipeline   *)
(* load -> tempo estimate -> stretch ratio -> time-stretch -> pitch-shift  *)
(* -> quantize -> AudioSegment -> normalize -> export, wrapped in one      *)
(* try/except with the two handlers of lines 94-97.                        *)
(*                                                                         *)
(* Representation.  A floating-point sample is an integer number of        *)
(* thousandths (1000 is 1.0).  A tempo or target BPM is an integer; the    *)
(* stretch ratio original_tempo / target_bpm is kept as the pair           *)
(* <<numerator, denominator>>, so no rounding is introduced by the model.  *)
(* 16-bit samples are integers in Int16Min..Int16Max.                      *)
(*                                                                         *)
(* The library routines called by the script (librosa.load, beat_track,    *)
(* time_stretch, pitch_shift, numpy astype, pydub AudioSegment, normalize, *)
(* export) are modelled by their documented length, range and exception    *)
(* behaviour; the spectral content of a buffer is not represented, a       *)
(* sample stands for the local amplitude.                                  *)
(***************************************************************************)
EXTENDS Integers, Sequences, FiniteSets, TLC

\* ------------------------------------------------------------- bounds
\* Longest input buffer, in samples.
MaxLen == 2

\* Amplitudes a decoded sample can take, in thousandths: silence, half and full
\* scale, and a value outside [-1, 1] (librosa.load does not clip decoded floats).
Amp == {-1500, 0, 500, 1000}

\* Native sampling rates of the input file.
Rates == {44100, 48000}

\* Tempo estimates the beat tracker can return for a non-silent buffer
\* (0: no onset detected).
Tempos == {0, 65, 120}

\* ------------------------------------------------- program constants
VOCAL_PATH == "vocals.mp3"
OUTPUT_PATH == "processed_vocals.wav"
TARGET_BPM == 65
PITCH_SHIFT_SEMITONES == -5

\* Values of target_bpm and pitch_shift a caller can pass (not validated).
Targets == {-TARGET_BPM, 0, TARGET_BPM, 120}
Semitones == {PITCH_SHIFT_SEMITONES, 0, 5}

\* np.int16 range and the scale factor of line 75.
Int16Max == 32767
Int16Min == -32768
Int16Mod == 65536

\* pydub: sample_width of an int16 buffer (dtype.itemsize) and channels=1.
SampleWidth == 2
Channels == 1

\* pydub normalize(headroom=0.1): target peak = 32768 * 10^(-0.1/20)
\* = 32392.9078, kept as integer part and ten-thousandths.
TargetPeakInt == 32392
TargetPeakFrac == 9078

\* The stages of the try block, in program order.
StageOrder ==
  <<"load", "tempo", "ratio", "stretch", "shift", "quantize", "segment",
    "normalize", "export">>

VARIABLES
  inputKind,        \* what input_path resolves to: "missing", "corrupt", "ok"
  outDir,           \* directory of output_path: "ok", "nodir", "readonly"
  fileY, fileSr,    \* decoded content and native rate of the input file
  input_path, output_path, target_bpm, pitch_shift,   \* the arguments
  pc,               \* next stage to run, or "done"
  y, sr,            \* line 46
  original_tempo,   \* line 52: <<>> until assigned, then <<tempo>>
  stretch_ratio,    \* line 57: <<>> until assigned, then <<num, den>>
  stretchArg,       \* the rate time_stretch was called with, <<>> if not called
  y_stretched,      \* line 62
  y_shifted,        \* line 68
  y_shifted_int16,  \* line 75
  processed_audio,  \* lines 78-86: <<>> or <<segment record>>
  stdout,           \* the printed messages, in order
  raised,           \* class of the exception caught, "none" if none
  stages,           \* the stages started, in order
  fsLog,            \* filesystem accesses, in order: "read", "write"
  outFile           \* file at output_path: <<>> (absent) or <<segment record>>

env == <<inputKind, outDir, fileY, fileSr>>
args == <<input_path, output_path, target_bpm, pitch_shift>>
locals ==
  <<y, sr, original_tempo, stretch_ratio, stretchArg, y_stretched, y_shifted,
    y_shifted_int16, processed_audio>>
vars == <<env, args, pc, locals, stdout, raised, stages, fsLog, outFile>>

\* ------------------------------------------------------------ helpers
Abs(x) == IF x < 0 THEN -x ELSE x

Min(a, b) == IF a < b THEN a ELSE b

Max(a, b) == IF a > b THEN a ELSE b

\* All sequences over S of length 1..n.
Buffers(S, n) == UNION {[1..k -> S] : k \in 1..n}

IsSilent(buf) == \A i \in 1..Len(buf) : buf[i] = 0

Msg(kind, arg) == [kind |-> kind, arg |-> arg]

\* Python round(a / b) for a >= 0, b > 0: to nearest, ties to even.
RoundHalfEven(a, b) ==
  LET q == a \div b
      r == a % b
  IN  IF 2 * r < b THEN q
      ELSE IF 2 * r > b THEN q + 1
      ELSE IF q % 2 = 0 THEN q ELSE q + 1

\* ceil(a / b) for a >= 0, b > 0.
CeilDiv(a, b) == (a + b - 1) \div b

\* Truncation toward zero of a / b, b > 0 (float -> integer conversion).
TruncDiv(a, b) == IF a >= 0 THEN a \div b ELSE -((-a) \div b)

\* ------------------------------------------------- library behaviour
\* Variant: load called without sr=None resamples to the library default.
LoadRateDefault(native) == 22050

\* librosa.load(input_path, sr=None): sr=None keeps the file's native rate.
LoadRate(native) == native

\* librosa.beat.beat_track: the tempo estimates it can return.  A buffer with
\* no onset strength (all zeros) takes the early return with tempo 0.
BeatTrack(buf) == IF IsSilent(buf) THEN {0} ELSE Tempos

\* librosa.effects.time_stretch(y, rate = num / den), rate > 0: the output has
\* int(round(len(y) / rate)) samples; output sample i is taken at input time
\* (i - 1) * rate.
TimeStretch(buf, num, den) ==
  LET n == Len(buf)
      m == RoundHalfEven(n * Abs(den), Abs(num))
  IN  [i \in 1..m |-> buf[Min(n, (((i - 1) * Abs(num)) \div Abs(den)) + 1)]]

\* librosa.core.resample by ratio num / den: ceil(len * ratio) samples.
Resample(buf, num, den) ==
  LET n == Len(buf)
      m == CeilDiv(n * num, den)
  IN  [i \in 1..m |-> buf[Min(n, (((i - 1) * den) \div num) + 1)]]

\* librosa.util.fix_length: truncate, or pad with zeros, to size samples.
FixLength(buf, size) ==
  [i \in 1..size |-> IF i <= Len(buf) THEN buf[i] ELSE 0]

\* 2 ^ (-n_steps / 12) in thousandths, for the semitone counts of Semitones.
SemitoneRate(n) ==
  CASE n = -12 -> 2000
    [] n = -5 -> 1335
    [] n = 0 -> 1000
    [] n = 5 -> 749
    [] n = 12 -> 500

\* librosa.effects.pitch_shift(y, sr, n_steps): time-stretch by
\* rate = 2^(-n_steps/12), resample back by the same rate, fix_length to len(y).
PitchShift(buf, n) ==
  LET rate == SemitoneRate(n)
  IN  FixLength(Resample(TimeStretch(buf, rate, 1000), rate, 1000), Len(buf))

\* y * 32767 for a sample of v thousandths, then the truncation toward zero
\* of a float -> integer conversion.
Scale(v) == TruncDiv(v * Int16Max, 1000)

\* What astype(np.int16) can make of an integral value x.  In range the value
\* is kept.  Out of range the C conversion is undefined: the build either
\* keeps the low 16 bits (wrap) or saturates.
CastPolicies == {"wrap", "saturate"}

AsInt16(x, policy) ==
  IF x >= Int16Min /\ x <= Int16Max THEN x
  ELSE IF policy = "wrap" THEN ((x - Int16Min) % Int16Mod) + Int16Min
  ELSE IF x > Int16Max THEN Int16Max ELSE Int16Min

\* (y_shifted * 32767).astype(np.int16)
Quantize(buf, policy) ==
  [i \in 1..Len(buf) |-> AsInt16(Scale(buf[i]), policy)]

\* AudioSegment(data, frame_rate=sr, sample_width=itemsize, channels=1)
Segment(data, rate) ==
  [data |-> data, frame_rate |-> rate, sample_width |-> SampleWidth,
   channels |-> Channels]

\* audioop.max: the largest absolute sample value.
Peak(data) ==
  IF Len(data) = 0 THEN 0
  ELSE CHOOSE p \in {Abs(data[i]) : i \in 1..Len(data)} :
         \A i \in 1..Len(data) : Abs(data[i]) <= p

\* audioop.mul by the factor target_peak / peak: floor of the product, bounded
\* to the sample range.  floor(s * 32392.9078 / peak) is computed exactly.
MulSample(s, peak) ==
  LET a == s * TargetPeakInt
      q == a \div peak
      r == a % peak
      f == (r * 10000 + s * TargetPeakFrac) \div (10000 * peak)
  IN  Max(Int16Min, Min(Int16Max, q + f))

\* Variant: normalization with no headroom, the peak taken to 32768.
NormalizeNoHeadroom(seg) ==
  LET peak == Peak(seg.data)
  IN  IF peak = 0 THEN seg
      ELSE [seg EXCEPT !.data =
              [i \in 1..Len(seg.data) |->
                 Max(Int16Min, Min(Int16Max,
                     (seg.data[i] * (Int16Max + 1)) \div peak))]]

\* pydub effects.normalize(seg, headroom=0.1): a silent segment is returned
\* as it is; otherwise every sample is multiplied by the one gain that takes
\* the peak to 0.1 dB below the largest possible amplitude.
Normalize(seg) ==
  LET peak == Peak(seg.data)
  IN  IF peak = 0 THEN seg
      ELSE [seg EXCEPT !.data =
              [i \in 1..Len(seg.data) |-> MulSample(seg.data[i], peak)]]

\* ------------------------------------------------------- the handlers
\* Variant: the two except clauses in the opposite order, so that the
\* catch-all takes every exception.
HandlerMessageCatchAllFirst(exc) == Msg("unexpected", exc)

\* except FileNotFoundError (line 94) comes before except Exception (line 96);
\* the class of the exception alone selects the handler.
HandlerMessage(exc) ==
  IF exc = "FileNotFoundError" THEN Msg("not_found", input_path)
  ELSE Msg("unexpected", exc)

\* Variant: the completion message placed after the try statement, so that
\* it is printed after a handler ran as well.
RaiseAndComplete(so_far, exc) ==
  /\ stdout' = Append(Append(so_far, HandlerMessage(exc)), Msg("complete", ""))
  /\ raised' = exc
  /\ pc' = "done"

\* An exception raised when the stage has printed so far: the matching
\* handler prints its message and the function returns.
Raise(so_far, exc) ==
  /\ stdout' = Append(so_far, HandlerMessage(exc))
  /\ raised' = exc
  /\ pc' = "done"

\* Variant: the normalize statement left out, export following the segment.
AfterSkipNormalize(stage) ==
  LET i == CHOOSE k \in 1..Len(StageOrder) : StageOrder[k] = stage
  IN  IF stage = "segment" THEN "export"
      ELSE IF i < Len(StageOrder) THEN StageOrder[i + 1] ELSE "done"

\* Straight-line code: the statement after a stage that completed is the next
\* stage of the try block, and the function returns after the last one.
After(stage) ==
  LET i == CHOOSE k \in 1..Len(StageOrder) : StageOrder[k] = stage
  IN  IF i < Len(StageOrder) THEN StageOrder[i + 1] ELSE "done"

Begin(stage) ==
  /\ pc = stage
  /\ stages' = Append(stages, stage)

\* ------------------------------------------------------ the function
\* The state at the call process_vocals_for_phonk(input_path, output_path,
\* target_bpm, pitch_shift): nothing printed, no local bound, no file written.
Init ==
  /\ inputKind \in {"missing", "corrupt", "ok"}
  /\ outDir \in {"ok", "nodir", "readonly"}
  /\ fileY \in Buffers(Amp, MaxLen)
  /\ fileSr \in Rates
  /\ input_path = VOCAL_PATH
  /\ output_path = OUTPUT_PATH
  /\ target_bpm \in Targets
  /\ pitch_shift \in Semitones
  /\ pc = "start"
  /\ y = <<>>
  /\ sr = 0
  /\ original_tempo = <<>>
  /\ stretch_ratio = <<>>
  /\ stretchArg = <<>>
  /\ y_stretched = <<>>
  /\ y_shifted = <<>>
  /\ y_shifted_int16 = <<>>
  /\ processed_audio = <<>>
  /\ stdout = <<>>
  /\ raised = "none"
  /\ stages = <<>>
  /\ fsLog = <<>>
  /\ outFile = <<>>

\* Line 41: the first message, printed before the try block is entered.
Start ==
  /\ pc = "start"
  /\ stdout' = Append(stdout, Msg("start", ""))
  /\ pc' = "load"
  /\ UNCHANGED <<env, args, locals, raised, stages, fsLog, outFile>>

\* Lines 46-47: librosa.load.  A path that does not resolve raises
\* FileNotFoundError before anything is read; a file that cannot be decoded
\* raises after it was read.
Load ==
  /\ Begin("load")
  /\ \/ /\ inputKind = "missing"
        /\ Raise(stdout, "FileNotFoundError")
        /\ UNCHANGED <<y, sr, fsLog>>
     \/ /\ inputKind = "corrupt"
        /\ fsLog' = Append(fsLog, "read")
        /\ Raise(stdout, "NoBackendError")
        /\ UNCHANGED <<y, sr>>
     \/ /\ inputKind = "ok"
        /\ fsLog' = Append(fsLog, "read")
        /\ y' = fileY
        /\ sr' = LoadRate(fileSr)
        /\ stdout' = Append(stdout, Msg("loaded", input_path))
        /\ pc' = After("load")
        /\ UNCHANGED raised
  /\ UNCHANGED <<env, args, original_tempo, stretch_ratio, stretchArg,
                 y_stretched, y_shifted, y_shifted_int16, processed_audio,
                 outFile>>

\* Lines 52-53: beat_track, then the estimate formatted with :.2f.  Where the
\* library returns the tempo as an array, the format raises TypeError.
Tempo ==
  /\ Begin("tempo")
  /\ \E t \in BeatTrack(y) :
       /\ original_tempo' = <<t>>
       /\ \/ /\ stdout' = Append(stdout, Msg("tempo", ""))
             /\ pc' = After("tempo")
             /\ UNCHANGED raised
          \/ Raise(stdout, "TypeError")
  /\ UNCHANGED <<env, args, y, sr, stretch_ratio, stretchArg, y_stretched,
                 y_shifted, y_shifted_int16, processed_audio, fsLog, outFile>>

\* Line 57: stretch_ratio = original_tempo / target_bpm.  Division by a zero
\* target raises ZeroDivisionError for a Python float tempo and yields inf or
\* nan (a warning only) for a numpy one: the pair <<tempo, 0>>.
Ratio ==
  /\ Begin("ratio")
  /\ \/ /\ target_bpm # 0
        /\ stretch_ratio' = <<original_tempo[1], target_bpm>>
        /\ pc' = After("ratio")
        /\ UNCHANGED <<stdout, raised>>
     \/ /\ target_bpm = 0
        /\ stretch_ratio' = <<original_tempo[1], 0>>
        /\ pc' = After("ratio")
        /\ UNCHANGED <<stdout, raised>>
     \/ /\ target_bpm = 0
        /\ Raise(stdout, "ZeroDivisionError")
        /\ UNCHANGED stretch_ratio
  /\ UNCHANGED <<env, args, y, sr, original_tempo, stretchArg, y_stretched,
                 y_shifted, y_shifted_int16, processed_audio, fsLog, outFile>>

\* rate > 0 for the finite rate num / den.
RatePositive(num, den) == den # 0 /\ num * den > 0

\* Lines 62-63: time_stretch(y, rate=stretch_ratio).  The library rejects
\* rate <= 0 with ParameterError; a rate that is not finite passes that test
\* and fails in the length computation.
Stretch ==
  /\ Begin("stretch")
  /\ stretchArg' = stretch_ratio
  /\ LET num == stretch_ratio[1]
         den == stretch_ratio[2]
     IN  \/ /\ RatePositive(num, den)
            /\ y_stretched' = TimeStretch(y, num, den)
            /\ stdout' = Append(stdout, Msg("stretched", ""))
            /\ pc' = After("stretch")
            /\ UNCHANGED raised
         \/ /\ den # 0
            /\ ~RatePositive(num, den)
            /\ Raise(stdout, "ParameterError")
            /\ UNCHANGED y_stretched
         \/ /\ den = 0
            /\ Raise(stdout, "ValueError")
            /\ UNCHANGED y_stretched
  /\ UNCHANGED <<env, args, y, sr, original_tempo, stretch_ratio, y_shifted,
                 y_shifted_int16, processed_audio, fsLog, outFile>>

\* Lines 68-69: pitch_shift(y_stretched, sr, n_steps=pitch_shift).
Shift ==
  /\ Begin("shift")
  /\ \/ /\ y_shifted' = PitchShift(y_stretched, pitch_shift)
        /\ stdout' = Append(stdout, Msg("shifted", ""))
        /\ pc' = After("shift")
        /\ UNCHANGED raised
     \/ /\ Raise(stdout, "MemoryError")
        /\ UNCHANGED y_shifted
  /\ UNCHANGED <<env, args, y, sr, original_tempo, stretch_ratio, stretchArg,
                 y_stretched, y_shifted_int16, processed_audio, fsLog,
                 outFile>>

\* Line 75: (y_shifted * 32767).astype(np.int16).
QuantizeStep ==
  /\ Begin("quantize")
  /\ \/ /\ \E policy \in CastPolicies :
             y_shifted_int16' = Quantize(y_shifted, policy)
        /\ pc' = After("quantize")
        /\ UNCHANGED <<stdout, raised>>
     \/ /\ Raise(stdout, "MemoryError")
        /\ UNCHANGED y_shifted_int16
  /\ UNCHANGED <<env, args, y, sr, original_tempo, stretch_ratio, stretchArg,
                 y_stretched, y_shifted, processed_audio, fsLog, outFile>>

\* Lines 78-83: the AudioSegment over the quantized bytes.
SegmentStep ==
  /\ Begin("segment")
  /\ \/ /\ processed_audio' = <<Segment(y_shifted_int16, sr)>>
        /\ pc' = After("segment")
        /\ UNCHANGED <<stdout, raised>>
     \/ /\ Raise(stdout, "MemoryError")
        /\ UNCHANGED processed_audio
  /\ UNCHANGED <<env, args, y, sr, original_tempo, stretch_ratio, stretchArg,
                 y_stretched, y_shifted, y_shifted_int16, fsLog, outFile>>

\* Line 86: processed_audio = processed_audio.normalize().
NormalizeStep ==
  /\ Begin("normalize")
  /\ \/ /\ processed_audio' = <<Normalize(processed_audio[1])>>
        /\ pc' = After("normalize")
        /\ UNCHANGED <<stdout, raised>>
     \/ /\ Raise(stdout, "MemoryError")
        /\ UNCHANGED processed_audio
  /\ UNCHANGED <<env, args, y, sr, original_tempo, stretch_ratio, stretchArg,
                 y_stretched, y_shifted, y_shifted_int16, fsLog, outFile>>

\* Lines 89-92: the export message, export(output_path, format="wav"), the
\* completion message.  export opens output_path for writing: a directory
\* that does not exist raises FileNotFoundError, one that cannot be written
\* raises PermissionError, and in both cases nothing is written.
Export ==
  /\ Begin("export")
  /\ LET so_far == Append(stdout, Msg("exporting", output_path))
     IN  \/ /\ outDir = "ok"
            /\ outFile' = processed_audio
            /\ fsLog' = Append(fsLog, "write")
            /\ stdout' = Append(so_far, Msg("complete", ""))
            /\ pc' = After("export")
            /\ UNCHANGED raised
         \/ /\ outDir = "nodir"
            /\ Raise(so_far, "FileNotFoundError")
            /\ UNCHANGED <<outFile, fsLog>>
         \/ /\ outDir = "readonly"
            /\ Raise(so_far, "PermissionError")
            /\ UNCHANGED <<outFile, fsLog>>
  /\ UNCHANGED <<env, args, locals>>

Next ==
  \/ Start
  \/ Load
  \/ Tempo
  \/ Ratio
  \/ Stretch
  \/ Shift
  \/ QuantizeStep
  \/ SegmentStep
  \/ NormalizeStep
  \/ Export

Spec == Init /\ [][Next]_vars

\* The script is one thread of straight-line code: a stage that can run does.
FairSpec == Spec /\ WF_vars(Next)

\* ------------------------------------------------------------ claims
IsError(m) == m.kind \in {"not_found", "unexpected"}

ErrorCount == Cardinality({i \in 1..Len(stdout) : IsError(stdout[i])})

Printed(kind) == \E i \in 1..Len(stdout) : stdout[i].kind = kind

Started(stage) == \E i \in 1..Len(stages) : stages[i] = stage

IsPrefix(a, b) == Len(a) <= Len(b) /\ \A i \in 1..Len(a) : a[i] = b[i]

Returned == pc = "done"

Succeeded == pc = "done" /\ raised = "none"

\* The stage has run to its end without raising.
Completed(stage) ==
  /\ Started(stage)
  /\ pc # stage
  /\ ~(raised # "none" /\ stages[Len(stages)] = stage)

\* C1: a run whose input path does not resolve reports the not-found
\* condition (naming the input path), never starts the export stage and never
\* writes the filesystem: no output file is created.
C1_MissingInputNoOutput ==
  inputKind = "missing" =>
    /\ ~Started("export")
    /\ \A i \in 1..Len(fsLog) : fsLog[i] # "write"
    /\ outFile = <<>>
    /\ Returned =>
         /\ raised = "FileNotFoundError"
         /\ stdout[Len(stdout)] = Msg("not_found", input_path)
         /\ ErrorCount = 1

C1_Witness ==
  inputKind = "missing" /\ Returned /\ Printed("not_found")

\* C2, state part: once a stage has raised, the function has returned, exactly
\* one error message was printed and it is the last message, the completion
\* message was not printed, and the failing stage is the last one started.
C2_AfterFailure ==
  raised # "none" =>
    /\ Returned
    /\ ErrorCount = 1
    /\ IsError(stdout[Len(stdout)])
    /\ ~Printed("complete")
    /\ IsPrefix(stages, StageOrder)
    /\ outFile = <<>>

\* C2: a failure raised in any stage is caught at the top level, reported by
\* exactly one error message, followed by no later stage and no completion
\* message (no step is taken once an exception was caught), and every run
\* returns: the function always reaches its end.
C2_FailureCaughtOnce ==
  /\ [](C2_AfterFailure /\ (Returned /\ raised = "none" => ErrorCount = 0))
  /\ [][raised = "none"]_vars
  /\ <>Returned

C2_Witness ==
  /\ raised = "MemoryError"
  /\ stages[Len(stages)] = "normalize"
  /\ Returned

\* C3 (as claimed): the input-file-missing message is printed only when the
\* Loader failed because the input path does not resolve; a failure of any
\* other stage, a write failure of export included, is reported as
\* any-other-failure.
C3_NotFoundOnlyForMissingInput ==
  /\ Printed("not_found") => (inputKind = "missing" /\ stages = <<"load">>)
  /\ (raised # "none" /\ ~(inputKind = "missing" /\ stages = <<"load">>)) =>
       Printed("unexpected")

\* C4: the stages start in the one fixed order, each after the one before it
\* completed; the filesystem is read at most once, first, and written at most
\* once, last, only after every earlier stage completed; a successful run
\* reads once and then writes once.
C4_StageOrderAndFilesystem ==
  /\ IsPrefix(stages, StageOrder)
  /\ pc \notin {"start", "done"} => pc = StageOrder[Len(stages) + 1]
  /\ fsLog \in {<<>>, <<"read">>, <<"read", "write">>}
  /\ fsLog # <<>> => Started("load")
  /\ fsLog = <<"read", "write">> =>
       /\ stages = StageOrder
       /\ raised = "none"
       /\ \A k \in 1..(Len(StageOrder) - 1) : Completed(StageOrder[k])
  /\ (outFile # <<>>) = (fsLog = <<"read", "write">>)
  /\ Succeeded => fsLog = <<"read", "write">>

C4_Witness ==
  Succeeded /\ fsLog = <<"read", "write">> /\ stages = StageOrder

\* C5 (as claimed): a silent input, readable and with a writable output
\* directory and a positive target, runs to the end without entering an
\* error branch and exports a silent buffer.  (A failure of the environment,
\* TypeError of the tempo format or MemoryError, is left aside.)
C5_SilentInputCompletes ==
  ( /\ inputKind = "ok"
    /\ IsSilent(fileY)
    /\ outDir = "ok"
    /\ target_bpm > 0
    /\ Returned
    /\ raised \notin {"TypeError", "MemoryError"} ) =>
    /\ raised = "none"
    /\ outFile # <<>>
    /\ IsSilent(outFile[1].data)

\* C6 (as claimed): whenever time_stretch is called, the rate passed is
\* original_tempo / target_bpm and is strictly positive.
C6_StretchRatioPositive ==
  stretchArg # <<>> =>
    /\ stretchArg = <<original_tempo[1], target_bpm>>
    /\ RatePositive(stretchArg[1], stretchArg[2])

\* C7 (as claimed): quantization maps every sample into the 16-bit range,
\* a sample within [-1, 1] to the truncation of 32767 times its value, and a
\* sample outside [-1, 1] to full scale of its own sign.
C7_QuantizeClips ==
  Completed("quantize") =>
    /\ Len(y_shifted_int16) = Len(y_shifted)
    /\ \A i \in 1..Len(y_shifted) :
         /\ y_shifted_int16[i] \in Int16Min..Int16Max
         /\ Abs(y_shifted[i]) <= 1000 =>
              y_shifted_int16[i] = Scale(y_shifted[i])
         /\ y_shifted[i] > 1000 => y_shifted_int16[i] = Int16Max
         /\ y_shifted[i] < -1000 => y_shifted_int16[i] <= -Int16Max

\* What C8 states of every sample: range kept, and one gain for all samples
\* (order and sign of the quantized samples kept, zero kept).
C8_RangeAndDynamics ==
  LET q == y_shifted_int16
      x == processed_audio[1].data
  IN  /\ Len(x) = Len(q)
      /\ \A i \in 1..Len(x) :
           /\ x[i] \in Int16Min..Int16Max
           /\ (q[i] = 0) = (x[i] = 0)
           /\ (q[i] > 0) = (x[i] > 0)
      /\ \A i, j \in 1..Len(x) : q[i] <= q[j] => x[i] <= x[j]
      /\ Peak(q) = 0 => x = q

C9_Metadata ==
  /\ sr # 0 => sr = fileSr
  /\ processed_audio # <<>> =>
       processed_audio[1] = [processed_audio[1] EXCEPT
                               !.frame_rate = fileSr,
                               !.sample_width = 2,
                               !.channels = 1]
  /\ outFile # <<>> =>
       /\ outFile[1].frame_rate = fileSr
       /\ outFile[1].sample_width = 2
       /\ outFile[1].channels = 1

\* C9: the exported file has the Loader's native sampling rate, one channel
\* and 16-bit samples, whatever the target BPM and the pitch shift; no stage
\* changes the rate once it is bound, and no step changes the arguments.
C9_RateAndFormatCarried ==
  /\ []C9_Metadata
  /\ [][(sr # 0 => sr' = sr) /\ args' = args]_vars

C9_Witness ==
  /\ Succeeded
  /\ outFile # <<>>
  /\ outFile[1].frame_rate = fileSr
  /\ target_bpm # TARGET_BPM
  /\ pitch_shift # PITCH_SHIFT_SEMITONES

\* round(n * num / den) for the worked example's tolerance.
C10_ExampleLength(n) == RoundHalfEven(n * 120, 65)

\* C10 (as claimed): a successful run on N samples exports round(N / R)
\* samples, R = original_tempo / target_bpm, and for an estimate of 120 BPM
\* and a target of 65 BPM that is about N * 120 / 65 samples (within one).
C10_ExportedLength ==
  Succeeded =>
    LET n == Len(fileY)
        m == Len(outFile[1].data)
    IN  /\ m = RoundHalfEven(n * target_bpm, original_tempo[1])
        /\ (original_tempo[1] = 120 /\ target_bpm = 65) =>
             Abs(m - C10_ExampleLength(n)) <= 1

====
